---------------------------- MODULE Spec2Model ----------------------------
(***************************************************************************)
(* Model of slack/command.py: the Command variants a bot hands to Slack    *)
(* (MessageCommand, DeleteCommand, HistoryCommand, ReactCommand,           *)
(* UploadCommand) and the loop that runs a command and then whatever       *)
(* command its execute returns.                                            *)
(*                                                                         *)
(* One behaviour is one dispatch: a constructed command and an event are   *)
(* chosen in Init, and the actions are the stretches of each execute       *)
(* between two awaits. Everything execute asks of its collaborators (the   *)
(* id lookups, the awaited client calls, the store query, the callback,    *)
(* os.remove) is appended to `trace`; an awaited call is logged when it is *)
(* issued ("call") and again when it completes ("ok") or raises ("raise"). *)
(***************************************************************************)
EXTENDS Integers, Sequences, FiniteSets, TLC

VARIABLES
    ctor,       \* the constructor call that made the dispatched command
    cmd,        \* the command being executed (`self`), with its attributes
    event,      \* the event handed to every execute of the dispatch
    chain,      \* the commands executed so far, each as it was when its execute began
    pc,         \* where the dispatch stands
    index,      \* MessageCommand.execute: the loop variable `index`
    channel,    \* MessageCommand.execute: the local `channel` (resolved address)
    pending,    \* positions in trace of the awaited calls still in flight
    trace,      \* every request made of the client, the store, the callback, the disk
    files,      \* the local files that exist
    files0,     \* the local files that existed when the dispatch began
    store,      \* the documents of the history store, in store order
    result,     \* what the last finished execute returned
    error       \* the exception that has left execute, None while none has

vars == <<ctor, cmd, event, chain, pc, index, channel, pending, trace, files, files0, store, result, error>>

----------------------------------------------------------------------------
(* Bounds of the model *)

\* texts run up to MaxChunks full chunks plus one character
MaxChunks == 2
\* the store holds up to MaxStore documents
MaxStore == 2
\* a dispatch follows at most MaxRuns commands
MaxRuns == 3

(* The message-size ceiling of MessageCommand.execute *)
ChunkSize == 4000

----------------------------------------------------------------------------
(* Python values *)

\* Python's None, where a string is expected
None == "None"

\* `if x:` for x a string or None
Truthy(x) == x \notin {None, ""}

\* event=None is this record; any other event is a dict, a record of its keys
NoEvent == [None |-> None]

\* a // b for b > 0: Python rounds the quotient down, as \div does
FloorDiv(a, b) == a \div b

\* s[lo:hi] for 0 <= lo <= hi: the characters at Python positions lo..hi-1,
\* clamped to the length of s
Slice(s, lo, hi) ==
    SubSeq(s, lo + 1, IF hi < Len(s) THEN hi ELSE Len(s))

\* what an execute returns: nothing, a plain value, or a command
RetNone == [type |-> "None"]
RetValue(v) == [type |-> "value", value |-> v]
RetCommand(c) == [type |-> "command", command |-> c]

----------------------------------------------------------------------------
(* Constructors *)

\* MessageCommand.__init__
MessageCommand(ch, user, text) ==
    [kind |-> "Message", channel |-> ch, user |-> user, text |-> text]

\* DeleteCommand.__init__: the arguments are dropped, the object has no attributes
DeleteCommand(ch, user, text) == [kind |-> "Delete"]

\* Record = namedtuple('Record', ['channel', 'user', 'text', 'time'])
Record(ch, user, text, time) ==
    [channel |-> ch, user |-> user, text |-> text, time |-> time]

\* HistoryCommand.__init__
HistoryCommand(callback, ch, user) ==
    [kind |-> "History", callback |-> callback, channel |-> ch, user |-> user]

\* ReactCommand.__init__
ReactCommand(emoji) == [kind |-> "React", _emoji |-> emoji]

\* UploadCommand.__init__
UploadCommand(user, ch, file_name, delete) ==
    [kind |-> "Upload", user |-> user, channel |-> ch,
     file_name |-> file_name, delete |-> delete]

\* isinstance(r, Command), for r a return value
IsCommand(r) == r.type = "command"

----------------------------------------------------------------------------
(* Inputs *)

\* the character at position i (1-based) of the texts below; every chunk of a
\* text starts on a different character than the chunk before it
Char(i) == (i + (i - 1) \div ChunkSize) % 3

\* the text of n characters
Text(n) == [i \in 1..n |-> Char(i)]

\* lengths around every multiple of ChunkSize up to MaxChunks, and 0 and 1
Lengths ==
    {0, 1} \cup {k * ChunkSize + d : k \in 1..MaxChunks, d \in {-1, 0, 1}}

Channels == {None, "", "C1"}
Users == {None, "U1"}

\* the events a dispatch may carry: none, one lacking 'ts', two complete ones
Events ==
    { NoEvent,
      [channel |-> "C1", user |-> "U1"],
      [channel |-> "C1", user |-> "U1", ts |-> "10.0"],
      [channel |-> "C2", user |-> "U2", ts |-> "20.0"] }

\* the documents of the history store: the four fields execute reads, and the
\* document id it does not
Doc(n) ==
    [id |-> n,
     channel |-> IF n % 2 = 1 THEN "C1" ELSE "C2",
     user |-> IF n <= 2 THEN "U1" ELSE "U2",
     text |-> Text(n),
     time |-> 100 - n]

Docs == {Doc(n) : n \in 1..4}

RECURSIVE SeqsUpTo(_, _)
\* the sequences over S of length at most n
SeqsUpTo(S, n) ==
    IF n = 0 THEN {<<>>}
    ELSE LET shorter == SeqsUpTo(S, n - 1)
         IN  shorter \cup {Append(s, x) : s \in shorter, x \in S}

Stores == SeqsUpTo(Docs, MaxStore)

FileNames == {"a.png"}

\* the callbacks handed to HistoryCommand, by name
Callbacks ==
    {"cb_none", "cb_count", "cb_reply", "cb_again", "cb_delete", "cb_self", "cb_raise"}

\* what callback cb returns when awaited with hist_list (cb_raise raises instead)
CallbackReturn(cb, hist_list) ==
    CASE cb = "cb_none"   -> RetNone
      [] cb = "cb_count"  -> RetValue(Len(hist_list))
      [] cb = "cb_reply"  -> RetCommand(MessageCommand("C1", None, Text(Len(hist_list))))
      [] cb = "cb_again"  -> RetCommand(HistoryCommand("cb_count", None, "U1"))
      [] cb = "cb_delete" -> RetCommand(DeleteCommand(None, None, <<>>))
      [] cb = "cb_self"   -> RetCommand(HistoryCommand("cb_self", None, None))

\* the constructor calls a bot may make: the class and the arguments
Constructions ==
    {[kind |-> "Message", channel |-> c, user |-> u, text |-> Text(n)] :
        c \in Channels, u \in Users, n \in Lengths}
    \cup {[kind |-> "Delete", channel |-> c, user |-> u, text |-> <<>>] :
        c \in Channels, u \in {None, "U2"}}
    \cup {[kind |-> "History", callback |-> cb, channel |-> c, user |-> u] :
        cb \in Callbacks, c \in Channels, u \in Users}
    \cup {[kind |-> "React", emoji |-> e] : e \in {":ok:", ":no:"}}
    \cup {[kind |-> "Upload", user |-> u, channel |-> c, file_name |-> f, delete |-> d] :
        u \in Users, c \in Channels, f \in FileNames \cup {None}, d \in BOOLEAN}

\* the object a constructor call makes
Construct(a) ==
    CASE a.kind = "Message" -> MessageCommand(a.channel, a.user, a.text)
      [] a.kind = "Delete"  -> DeleteCommand(a.channel, a.user, a.text)
      [] a.kind = "History" -> HistoryCommand(a.callback, a.channel, a.user)
      [] a.kind = "React"   -> ReactCommand(a.emoji)
      [] a.kind = "Upload"  -> UploadCommand(a.user, a.channel, a.file_name, a.delete)

----------------------------------------------------------------------------
(* The collaborators *)

\* slack.ids.cid(name): the address of the channel called name
Cid(name) == [channel_id |-> name]

\* slack.ids.dmid(name): the address of the direct-message channel of user name
Dmid(name) == [dm_id |-> name]

\* HistoryDoc.objects(**kwargs): the documents whose fields equal the filters,
\* in store order
Objects(st, kwargs) ==
    SelectSeq(st, LAMBDA d : \A k \in DOMAIN kwargs : d[k] = kwargs[k])

\* the errors an awaited client call may raise
ClientErrors == {"SlackError", "TimeoutError"}

\* an entry of trace: kind is "call" (an awaited call is issued), "ok" (a call
\* has completed) or "raise" (a call has raised); `call` is the position in
\* trace of the "call" entry it belongs to
Ev(kind, op, args, call) ==
    [ev |-> kind, op |-> op, run |-> Len(chain), args |-> args, call |-> call]

\* tr with the issue of an awaited call appended
Issue(tr, op, args) == Append(tr, Ev("call", op, args, Len(tr) + 1))

\* tr with the outcome (kind) of the call at position p appended
Outcome(tr, kind, p) == Append(tr, Ev(kind, tr[p].op, tr[p].args, p))

\* tr with the raising of error e by the call at position p appended
Raised(tr, p, e) ==
    Append(tr, [ev |-> "raise", op |-> tr[p].op, run |-> Len(chain),
                args |-> tr[p].args, call |-> p, error |-> e])

\* tr with a call that does not suspend appended, by its outcome
Sync(tr, kind, op, args) == Append(tr, Ev(kind, op, args, Len(tr) + 1))

\* the one call the suspended execute is waiting for
Awaited == CHOOSE p \in pending : \A q \in pending : p <= q

----------------------------------------------------------------------------
(* MessageCommand.execute *)

\* MessageLookup with the precedence turned round: the user's direct-message
\* address whenever a user is given
MessageLookupUserFirst(self) ==
    IF Truthy(self.user)
    THEN [op |-> "dmid", name |-> self.user, address |-> Dmid(self.user)]
    ELSE [op |-> "cid", name |-> self.channel, address |-> Cid(self.channel)]

\* the lookup that resolves the destination: slack.ids.cid(self.channel) if
\* self.channel is truthy, else slack.ids.dmid(self.user)
MessageLookup(self) ==
    IF Truthy(self.channel)
    THEN [op |-> "cid", name |-> self.channel, address |-> Cid(self.channel)]
    ELSE [op |-> "dmid", name |-> self.user, address |-> Dmid(self.user)]

\* ChunkCount with the quotient taken of the length itself: one iteration too
\* many whenever the length is a multiple of 4000
ChunkCountOfLength(text) == FloorDiv(Len(text), ChunkSize) + 1

\* (len(self.text) - 1) // 4000 + 1, the number of iterations of the loop
ChunkCount(text) == FloorDiv(Len(text) - 1, ChunkSize) + 1

\* Chunk with the slice ended one character early
ChunkEndedEarly(text, i) == Slice(text, ChunkSize * i, ChunkSize * (i + 1) - 1)

\* self.text[4000 * index: 4000 * (index + 1)]
Chunk(text, i) == Slice(text, ChunkSize * i, ChunkSize * (i + 1))

\* MessageLoop with the sends not awaited one by one: the send of chunk i is
\* issued, and with it the send of chunk i + 1 when there is one
MessageLoopUnawaited(i, ch, tr, pend) ==
    IF i < ChunkCount(cmd.text)
    THEN LET one == Issue(tr, "send", [text |-> Chunk(cmd.text, i), channel |-> ch])
             two == Issue(one, "send", [text |-> Chunk(cmd.text, i + 1), channel |-> ch])
         IN  /\ index' = IF i + 1 < ChunkCount(cmd.text) THEN i + 1 ELSE i
             /\ trace' = IF i + 1 < ChunkCount(cmd.text) THEN two ELSE one
             /\ pending' = pend \cup
                    (IF i + 1 < ChunkCount(cmd.text)
                     THEN {Len(tr) + 1, Len(tr) + 2} ELSE {Len(tr) + 1})
             /\ pc' = "msg_await"
             /\ UNCHANGED result
    ELSE /\ trace' = tr
         /\ pending' = pend
         /\ pc' = "returned"
         /\ result' = RetNone
         /\ UNCHANGED index

\* the for loop, about to take index i (tr and pend are the trace and the calls
\* in flight so far): issue the send of chunk i and suspend on it, or, when
\* range(...) is exhausted, fall off the end of execute
MessageLoop(i, ch, tr, pend) ==
    IF i < ChunkCount(cmd.text)
    THEN /\ index' = i
         /\ trace' = Issue(tr, "send", [text |-> Chunk(cmd.text, i), channel |-> ch])
         /\ pending' = pend \cup {Len(tr) + 1}
         /\ pc' = "msg_await"
         /\ UNCHANGED result
    ELSE /\ trace' = tr
         /\ pending' = pend
         /\ pc' = "returned"
         /\ result' = RetNone
         /\ UNCHANGED index

\* execute up to its first await: resolve the destination, enter the loop
MessageExecute ==
    /\ pc = "execute"
    /\ cmd.kind = "Message"
    /\ LET look == MessageLookup(cmd)
       IN  /\ channel' = look.address
           /\ MessageLoop(0, look.address,
                          Sync(trace, "ok", look.op, [name |-> look.name]), pending)
    /\ UNCHANGED <<ctor, cmd, event, chain, files, files0, store, error>>

\* the awaited send completes: the loop takes the next index
MessageSendOk ==
    /\ pc = "msg_await"
    /\ MessageLoop(index + 1, channel, Outcome(trace, "ok", Awaited),
                   pending \ {Awaited})
    /\ UNCHANGED <<ctor, cmd, event, chain, channel, files, files0, store, error>>

\* MessageSendRaise with the error of a chunk caught and the loop going on to
\* the next chunk
MessageSendRaiseSkips ==
    /\ pc = "msg_await"
    /\ \E e \in ClientErrors :
          MessageLoop(index + 1, channel, Raised(trace, Awaited, e),
                      pending \ {Awaited})
    /\ UNCHANGED <<ctor, cmd, event, chain, channel, files, files0, store, error>>

\* the awaited send raises: the error leaves execute
MessageSendRaise ==
    /\ pc = "msg_await"
    /\ \E e \in ClientErrors :
          /\ trace' = Raised(trace, Awaited, e)
          /\ error' = e
    /\ pending' = pending \ {Awaited}
    /\ pc' = "raised"
    /\ UNCHANGED <<ctor, cmd, event, chain, index, channel, files, files0, store, result>>

----------------------------------------------------------------------------
(* DeleteCommand.execute *)

\* event['channel'], event['user'], event['ts'] can all be read
DeleteReadable(ev) == {"channel", "user", "ts"} \subseteq DOMAIN ev

\* DeleteArgs with the constructor's channel and user used when they were given
DeleteArgsFromConstructor(self, ev) ==
    [channel |-> IF Truthy(ctor.channel) THEN ctor.channel ELSE ev.channel,
     user |-> IF Truthy(ctor.user) THEN ctor.user ELSE ev.user,
     ts |-> ev.ts]

\* the arguments of slack.delete_message
DeleteArgs(self, ev) == [channel |-> ev.channel, user |-> ev.user, ts |-> ev.ts]

\* DeleteExecute with the event read leniently (None for what is missing), so
\* that the request is issued whatever the event
DeleteExecuteLenient ==
    /\ pc = "execute"
    /\ cmd.kind = "Delete"
    /\ trace' = Issue(trace, "delete_message",
                      [k \in {"channel", "user", "ts"} |->
                          IF k \in DOMAIN event THEN event[k] ELSE None])
    /\ pending' = pending \cup {Len(trace) + 1}
    /\ pc' = "del_await"
    /\ UNCHANGED <<ctor, cmd, event, chain, index, channel, files, files0, store, result, error>>

\* execute up to its await: subscripting the event raises when it is None or
\* lacks a key, before anything is asked of the client
DeleteExecute ==
    /\ pc = "execute"
    /\ cmd.kind = "Delete"
    /\ IF DeleteReadable(event)
       THEN /\ trace' = Issue(trace, "delete_message", DeleteArgs(cmd, event))
            /\ pending' = pending \cup {Len(trace) + 1}
            /\ pc' = "del_await"
            /\ UNCHANGED error
       ELSE /\ pc' = "raised"
            /\ error' = IF event = NoEvent THEN "TypeError" ELSE "KeyError"
            /\ UNCHANGED <<trace, pending>>
    /\ UNCHANGED <<ctor, cmd, event, chain, index, channel, files, files0, store, result>>

DeleteOk ==
    /\ pc = "del_await"
    /\ trace' = Outcome(trace, "ok", Awaited)
    /\ pending' = pending \ {Awaited}
    /\ pc' = "returned"
    /\ result' = RetNone
    /\ UNCHANGED <<ctor, cmd, event, chain, index, channel, files, files0, store, error>>

DeleteRaise ==
    /\ pc = "del_await"
    /\ \E e \in ClientErrors :
          /\ trace' = Raised(trace, Awaited, e)
          /\ error' = e
    /\ pending' = pending \ {Awaited}
    /\ pc' = "raised"
    /\ UNCHANGED <<ctor, cmd, event, chain, index, channel, files, files0, store, result>>

----------------------------------------------------------------------------
(* HistoryCommand.execute *)

\* HistoryKwargs with the second `if` an `elif`: no user filter beside a
\* channel filter
HistoryKwargsElif(self) ==
    IF Truthy(self.channel) THEN [k \in {"channel"} |-> self.channel]
    ELSE [k \in {k \in {"user"} : Truthy(self[k])} |-> self[k]]

\* kwargs: the filters, one for each of channel and user that is truthy
HistoryKwargs(self) ==
    [k \in {k \in {"channel", "user"} : Truthy(self[k])} |-> self[k]]

\* [Record(r.channel, r.user, r.text, r.time) for r in hist_objects]
HistList(hist_objects) ==
    [i \in 1..Len(hist_objects) |->
        Record(hist_objects[i].channel, hist_objects[i].user,
               hist_objects[i].text, hist_objects[i].time)]

\* execute up to its await: query the store, build the list, call the callback
HistoryExecute ==
    /\ pc = "execute"
    /\ cmd.kind = "History"
    /\ LET kwargs == HistoryKwargs(cmd)
           hist_list == HistList(Objects(store, kwargs))
           queried == Sync(trace, "ok", "objects", [kwargs |-> kwargs])
       IN  /\ trace' = Issue(queried, "callback", [hist_list |-> hist_list])
           /\ pending' = pending \cup {Len(queried) + 1}
    /\ pc' = "hist_await"
    /\ UNCHANGED <<ctor, cmd, event, chain, index, channel, files, files0, store, result, error>>

\* the store query raises: the error leaves execute, the callback is not called
HistoryQueryRaise ==
    /\ pc = "execute"
    /\ cmd.kind = "History"
    /\ trace' = Sync(trace, "raise", "objects", [kwargs |-> HistoryKwargs(cmd)])
    /\ pc' = "raised"
    /\ error' = "StoreError"
    /\ UNCHANGED <<ctor, cmd, event, chain, index, channel, pending, files, files0, store, result>>

\* HistoryReturn with the callback awaited and its value dropped
HistoryReturnDropped(v) == RetNone

\* what execute returns once the callback has returned v
HistoryReturn(v) == v

\* the awaited callback returns: execute returns what it returned
HistoryCallbackOk ==
    /\ pc = "hist_await"
    /\ cmd.callback # "cb_raise"
    /\ trace' = Outcome(trace, "ok", Awaited)
    /\ pending' = pending \ {Awaited}
    /\ result' = HistoryReturn(CallbackReturn(cmd.callback, trace[Awaited].args.hist_list))
    /\ pc' = "returned"
    /\ UNCHANGED <<ctor, cmd, event, chain, index, channel, files, files0, store, error>>

\* the awaited callback raises: the error leaves execute
HistoryCallbackRaise ==
    /\ pc = "hist_await"
    /\ cmd.callback = "cb_raise"
    /\ trace' = Raised(trace, Awaited, "CallbackError")
    /\ error' = "CallbackError"
    /\ pending' = pending \ {Awaited}
    /\ pc' = "raised"
    /\ UNCHANGED <<ctor, cmd, event, chain, index, channel, files, files0, store, result>>

----------------------------------------------------------------------------
(* ReactCommand.execute *)

\* ReactExecute with the event not passed on to slack.react
ReactExecuteWithoutEvent ==
    /\ pc = "execute"
    /\ cmd.kind = "React"
    /\ trace' = Issue(trace, "react", [emoji |-> cmd._emoji, event |-> NoEvent])
    /\ pending' = pending \cup {Len(trace) + 1}
    /\ pc' = "react_await"
    /\ UNCHANGED <<ctor, cmd, event, chain, index, channel, files, files0, store, result, error>>

ReactExecute ==
    /\ pc = "execute"
    /\ cmd.kind = "React"
    /\ trace' = Issue(trace, "react", [emoji |-> cmd._emoji, event |-> event])
    /\ pending' = pending \cup {Len(trace) + 1}
    /\ pc' = "react_await"
    /\ UNCHANGED <<ctor, cmd, event, chain, index, channel, files, files0, store, result, error>>

ReactOk ==
    /\ pc = "react_await"
    /\ trace' = Outcome(trace, "ok", Awaited)
    /\ pending' = pending \ {Awaited}
    /\ pc' = "returned"
    /\ result' = RetNone
    /\ UNCHANGED <<ctor, cmd, event, chain, index, channel, files, files0, store, error>>

ReactRaise ==
    /\ pc = "react_await"
    /\ \E e \in ClientErrors :
          /\ trace' = Raised(trace, Awaited, e)
          /\ error' = e
    /\ pending' = pending \ {Awaited}
    /\ pc' = "raised"
    /\ UNCHANGED <<ctor, cmd, event, chain, index, channel, files, files0, store, result>>

----------------------------------------------------------------------------
(* UploadCommand.execute *)

\* execute up to its await
UploadExecute ==
    /\ pc = "execute"
    /\ cmd.kind = "Upload"
    /\ trace' = Issue(trace, "upload_file",
                      [f_name |-> cmd.file_name, channel |-> cmd.channel,
                       user |-> cmd.user])
    /\ pending' = pending \cup {Len(trace) + 1}
    /\ pc' = "upload_await"
    /\ UNCHANGED <<ctor, cmd, event, chain, index, channel, files, files0, store, result, error>>

\* UploadRemove with the file removed whether or not self.delete is set
UploadRemoveAlways(tr) ==
    IF cmd.file_name \in files
    THEN /\ files' = files \ {cmd.file_name}
         /\ trace' = Sync(tr, "ok", "remove", [path |-> cmd.file_name])
         /\ pc' = "returned"
         /\ result' = RetNone
         /\ UNCHANGED error
    ELSE /\ trace' = Sync(tr, "raise", "remove", [path |-> cmd.file_name])
         /\ pc' = "raised"
         /\ error' = IF cmd.file_name = None
                     THEN "TypeError" ELSE "FileNotFoundError"
         /\ UNCHANGED <<files, result>>

\* `if self.delete: os.remove(self.file_name)`, from trace tr: os.remove raises
\* when there is no such file (or the name is None)
UploadRemove(tr) ==
    IF cmd.delete
    THEN IF cmd.file_name \in files
         THEN /\ files' = files \ {cmd.file_name}
              /\ trace' = Sync(tr, "ok", "remove", [path |-> cmd.file_name])
              /\ pc' = "returned"
              /\ result' = RetNone
              /\ UNCHANGED error
         ELSE /\ trace' = Sync(tr, "raise", "remove", [path |-> cmd.file_name])
              /\ pc' = "raised"
              /\ error' = IF cmd.file_name = None
                          THEN "TypeError" ELSE "FileNotFoundError"
              /\ UNCHANGED <<files, result>>
    ELSE /\ trace' = tr
         /\ pc' = "returned"
         /\ result' = RetNone
         /\ UNCHANGED <<files, error>>

\* UploadOk with the command forgetting the file it has removed
UploadOkForgetsFile ==
    /\ pc = "upload_await"
    /\ pending' = pending \ {Awaited}
    /\ UploadRemove(Outcome(trace, "ok", Awaited))
    /\ cmd' = IF cmd.delete THEN [cmd EXCEPT !.file_name = None] ELSE cmd
    /\ UNCHANGED <<ctor, event, chain, index, channel, files0, store>>

\* the awaited upload completes: the rest of execute runs
UploadOk ==
    /\ pc = "upload_await"
    /\ pending' = pending \ {Awaited}
    /\ UploadRemove(Outcome(trace, "ok", Awaited))
    /\ UNCHANGED <<ctor, cmd, event, chain, index, channel, files0, store>>

\* UploadRaise with the removal done as a cleanup, whatever the upload did
UploadRaiseCleansUp ==
    /\ pc = "upload_await"
    /\ pending' = pending \ {Awaited}
    /\ \E e \in ClientErrors :
          /\ trace' = Raised(trace, Awaited, e)
          /\ error' = e
    /\ files' = IF cmd.delete THEN files \ {cmd.file_name} ELSE files
    /\ pc' = "raised"
    /\ UNCHANGED <<ctor, cmd, event, chain, index, channel, files0, store, result>>

\* the awaited upload raises: the error leaves execute before os.remove
UploadRaise ==
    /\ pc = "upload_await"
    /\ pending' = pending \ {Awaited}
    /\ \E e \in ClientErrors :
          /\ trace' = Raised(trace, Awaited, e)
          /\ error' = e
    /\ pc' = "raised"
    /\ UNCHANGED <<ctor, cmd, event, chain, index, channel, files, files0, store, result>>

----------------------------------------------------------------------------
(* The dispatcher: "If it returns another Command, that will be executed and *)
(* so on."                                                                  *)

\* execute returned a command: it is executed next, with the same event
DispatchNext ==
    /\ pc = "returned"
    /\ IsCommand(result)
    /\ Len(chain) < MaxRuns
    /\ cmd' = result.command
    /\ chain' = Append(chain, result.command)
    /\ pc' = "execute"
    /\ UNCHANGED <<ctor, event, index, channel, pending, trace, files, files0, store, result, error>>

\* execute returned something else: that is the result of the dispatch
DispatchDone ==
    /\ pc = "returned"
    /\ ~IsCommand(result)
    /\ pc' = "done"
    /\ UNCHANGED <<ctor, cmd, event, chain, index, channel, pending, trace, files, files0, store, result, error>>

----------------------------------------------------------------------------
(* The specification *)

\* the stores and the file systems a dispatch of command c is tried on: those
\* of other variants' executes are fixed, as c's execute reads neither
StoresFor(c) == IF c.kind = "History" THEN Stores ELSE {<<>>}
FilesFor(c) == IF c.kind = "Upload" THEN SUBSET FileNames ELSE {FileNames}

Init ==
    /\ ctor \in Constructions
    /\ cmd = Construct(ctor)
    /\ event \in Events
    /\ chain = <<cmd>>
    /\ pc = "execute"
    /\ index = 0
    /\ channel = None
    /\ pending = {}
    /\ trace = <<>>
    /\ files \in FilesFor(cmd)
    /\ files0 = files
    /\ store \in StoresFor(cmd)
    /\ result = RetNone
    /\ error = None

Next ==
    \/ MessageExecute
    \/ MessageSendOk
    \/ MessageSendRaise
    \/ DeleteExecute
    \/ DeleteOk
    \/ DeleteRaise
    \/ HistoryExecute
    \/ HistoryQueryRaise
    \/ HistoryCallbackOk
    \/ HistoryCallbackRaise
    \/ ReactExecute
    \/ ReactOk
    \/ ReactRaise
    \/ UploadExecute
    \/ UploadOk
    \/ UploadRaise
    \/ DispatchNext
    \/ DispatchDone

Spec == Init /\ [][Next]_vars

\* the same, with every awaited call sooner or later completing or raising and
\* every resumed execute and the dispatcher run by the event loop
FairSpec == Spec /\ WF_vars(Next)

----------------------------------------------------------------------------
(* What the claims speak of *)

Runs == 1..Len(chain)

\* the execute of run r has ended, by returning or by raising
Finished(r) == r < Len(chain) \/ pc \in {"returned", "done", "raised"}

\* the execute of run r has returned
Returned(r) == r < Len(chain) \/ pc \in {"returned", "done"}

\* the positions in trace of the entries of run r of kind `kind` and operation op
Entries(r, kind, op) ==
    {p \in 1..Len(trace) : trace[p].run = r /\ trace[p].ev = kind /\ trace[p].op = op}

\* the entries of run r of kind `kind` and operation op, in order
EntrySeq(r, kind, op) ==
    SelectSeq(trace, LAMBDA e : e.run = r /\ e.ev = kind /\ e.op = op)

\* the chunks run r has sent, in the order of the send calls
SentChunks(r) ==
    LET calls == EntrySeq(r, "call", "send")
    IN  [j \in 1..Len(calls) |-> calls[j].args.text]

RECURSIVE Concat(_)
\* the concatenation of a sequence of sequences
Concat(ss) == IF ss = <<>> THEN <<>> ELSE Head(ss) \o Concat(Tail(ss))

\* ceil(n / d), by its definition: the least k with n <= k * d
CeilDiv(n, d) == CHOOSE k \in 0..n : n <= k * d /\ (k = 0 \/ (k - 1) * d < n)

----------------------------------------------------------------------------
(* C1 *)

\* the runs that execute a MessageCommand
MessageRuns == {r \in Runs : chain[r].kind = "Message"}

----------------------------------------------------------------------------
(* C2 *)

\* C2: for a MessageCommand whose text T has N > 4000 characters, the chunks
\* sent so far are at every moment the first chunks of T, each of at most 4000
\* characters, at most ceil(N/4000) of them; once execute has returned there
\* are exactly ceil(N/4000) and their concatenation in sending order is T.
C2_ChunksOfLongText ==
    \A r \in MessageRuns :
        LET T == chain[r].text
            sent == SentChunks(r)
        IN  Len(T) > ChunkSize =>
                /\ Len(sent) <= CeilDiv(Len(T), ChunkSize)
                /\ \A j \in 1..Len(sent) : Len(sent[j]) <= ChunkSize
                /\ Concat(sent) = SubSeq(T, 1, Len(Concat(sent)))
                /\ \A j \in 1..(Len(sent) - 1) : Len(sent[j]) = ChunkSize
                /\ Returned(r) =>
                        /\ Len(sent) = CeilDiv(Len(T), ChunkSize)
                        /\ Concat(sent) = T

\* a MessageCommand of 2 * 4000 + 1 characters has returned after three sends
C2_Witness ==
    \E r \in MessageRuns :
        /\ Len(chain[r].text) = 2 * ChunkSize + 1
        /\ Returned(r)
        /\ Cardinality(Entries(r, "ok", "send")) = 3

----------------------------------------------------------------------------
(* C3 *)

\* C3: within one execute of a MessageCommand the j-th send issued carries
\* chunk j-1 of the text, every send but the last issued has completed before
\* the next one is issued, and at no moment are two sends in flight.
C3_SendsInSequence ==
    /\ Cardinality(pending) <= 1
    /\ \A r \in MessageRuns :
          LET calls == EntrySeq(r, "call", "send")
          IN  /\ \A j \in 1..Len(calls) :
                    calls[j].args.text = Slice(chain[r].text, ChunkSize * (j - 1), ChunkSize * j)
              /\ \A j \in 1..(Len(calls) - 1) :
                    \E p \in Entries(r, "ok", "send") :
                        /\ trace[p].call = calls[j].call
                        /\ calls[j].call < p
                        /\ p < calls[j + 1].call

\* the second send of an execute is in flight, the first having completed
C3_Witness ==
    \E r \in MessageRuns :
        /\ Cardinality(Entries(r, "call", "send")) = 2
        /\ Cardinality(Entries(r, "ok", "send")) = 1
        /\ Cardinality(pending) = 1

----------------------------------------------------------------------------
(* C4 *)

\* the lookups of run r, in order: the entries whose operation is cid or dmid
Lookups(r) == SelectSeq(trace, LAMBDA e : e.run = r /\ e.op \in {"cid", "dmid"})

\* C4: an execute of a MessageCommand performs exactly one lookup: of the
\* channel address of `channel` when `channel` is set (a non-empty string),
\* whatever `user` is, and of the direct-message address of `user` when it is
\* not; every chunk is sent to the address so resolved.
C4_ChannelBeforeUser ==
    \A r \in MessageRuns :
        (r < Len(chain) \/ pc # "execute") =>
            LET self == chain[r]
                looks == Lookups(r)
                calls == EntrySeq(r, "call", "send")
            IN  /\ Len(looks) = 1
                /\ IF self.channel \notin {None, ""}
                   THEN /\ looks[1].op = "cid"
                        /\ looks[1].args.name = self.channel
                        /\ \A j \in 1..Len(calls) :
                              calls[j].args.channel = Cid(self.channel)
                   ELSE /\ looks[1].op = "dmid"
                        /\ looks[1].args.name = self.user
                        /\ \A j \in 1..Len(calls) :
                              calls[j].args.channel = Dmid(self.user)

\* a MessageCommand with both a channel and a user has sent two chunks
C4_Witness ==
    \E r \in MessageRuns :
        /\ chain[r].channel = "C1"
        /\ chain[r].user = "U1"
        /\ Cardinality(Entries(r, "ok", "send")) = 2

----------------------------------------------------------------------------
(* C5 *)

\* the runs that execute an UploadCommand with delete=True on a file that
\* existed when the dispatch began
DeletingUploadRuns ==
    {r \in Runs : /\ chain[r].kind = "Upload"
                  /\ chain[r].delete
                  /\ chain[r].file_name \in files0}

\* C5: for an UploadCommand with delete=True the local file is, at every
\* moment, gone exactly if the upload call of that execute has completed
\* without raising: it is present while the upload is not issued or in flight,
\* present after the upload has raised, and its removal comes after the
\* completion of the upload in the trace.
C5_RemovedIffUploaded ==
    \A r \in DeletingUploadRuns :
        LET f == chain[r].file_name
        IN  /\ f \notin files <=> Entries(r, "ok", "upload_file") # {}
            /\ Entries(r, "raise", "upload_file") # {} => f \in files
            /\ \A p \in Entries(r, "ok", "remove") :
                  \E q \in Entries(r, "ok", "upload_file") : q < p
            /\ Finished(r) /\ f \in files => Entries(r, "raise", "upload_file") # {}

\* an UploadCommand with delete=True has returned and its file is gone
C5_Witness ==
    \E r \in DeletingUploadRuns :
        /\ Returned(r)
        /\ chain[r].file_name \notin files
        /\ Entries(r, "ok", "remove") # {}

----------------------------------------------------------------------------
(* C6 *)

\* the runs that execute a HistoryCommand
HistoryRuns == {r \in Runs : chain[r].kind = "History"}

\* the list run r handed to its callback
CallbackList(r) == EntrySeq(r, "call", "callback")[1].args.hist_list

\* the callback of run r has returned a command
CallbackGaveCommand(r) ==
    /\ r \in HistoryRuns
    /\ Entries(r, "ok", "callback") # {}
    /\ IsCommand(CallbackReturn(chain[r].callback, CallbackList(r)))

\* the number of requests run r has made of the client, the store, the callback
\* and the disk
RequestCount(r) ==
    Cardinality({p \in 1..Len(trace) : trace[p].run = r /\ trace[p].call = p})

\* the requests one execute of command c makes when nothing raises
RequestsOf(c) ==
    CASE c.kind = "Message" -> 1 + CeilDiv(Len(c.text), ChunkSize)
      [] c.kind = "Delete"  -> 1
      [] c.kind = "History" -> 2
      [] c.kind = "React"   -> 1
      [] c.kind = "Upload"  -> IF c.delete THEN 2 ELSE 1

\* C6: when the execute of command A (a HistoryCommand, the one variant that
\* returns anything) returns command B, the dispatch does not end before B has
\* been executed; B is executed once; every request of A lies in the trace
\* before every request of B; A has made its requests (the query, the
\* callback) once each; and when B's execute returns a value V that is no
\* command, B has made its requests once each, nothing further is executed and
\* the result of the dispatch is V.
C6_ChainFollowed ==
    CallbackGaveCommand(1) =>
        LET B == CallbackReturn(chain[1].callback, CallbackList(1)).command
        IN  /\ pc = "done" => Len(chain) >= 2
            /\ Len(chain) >= 2 =>
                  /\ chain[2] = B
                  /\ RequestCount(1) = RequestsOf(chain[1])
                  /\ \A p, q \in 1..Len(trace) :
                        (trace[p].run = 1 /\ trace[q].run = 2) => p < q
                  /\ RequestCount(2) <= RequestsOf(B)
            /\ (Len(chain) >= 2 /\ Returned(2) /\ ~CallbackGaveCommand(2)) =>
                  /\ Len(chain) = 2
                  /\ RequestCount(2) = RequestsOf(B)
                  /\ result = IF B.kind = "History"
                              THEN CallbackReturn(B.callback, CallbackList(2))
                              ELSE RetNone
                  /\ ~IsCommand(result)

\* a dispatch of two commands has ended: a HistoryCommand whose callback
\* returned a MessageCommand, and that MessageCommand, which has sent its text
C6_Witness ==
    /\ pc = "done"
    /\ Len(chain) = 2
    /\ chain[1].kind = "History"
    /\ chain[2].kind = "Message"
    /\ Entries(2, "ok", "send") # {}

----------------------------------------------------------------------------
(* C7 *)

\* document d passes the filters of HistoryCommand h
Passes(h, d) ==
    /\ h.channel \notin {None, ""} => d.channel = h.channel
    /\ h.user \notin {None, ""} => d.user = h.user

\* C7: the list a HistoryCommand hands to its callback holds, in store order,
\* one Record for each document of the store that has the command's channel
\* (if one is set) and the command's user (if one is set), with the document's
\* channel, user, text and time; with neither set that is every document.
C7_HistoryFiltered ==
    \A r \in HistoryRuns :
        Entries(r, "call", "callback") # {} =>
            LET h == chain[r]
                kept == SelectSeq(store, LAMBDA d : Passes(h, d))
                list == CallbackList(r)
            IN  /\ Len(list) = Len(kept)
                /\ \A i \in 1..Len(list) :
                      /\ DOMAIN list[i] = {"channel", "user", "text", "time"}
                      /\ list[i].channel = kept[i].channel
                      /\ list[i].user = kept[i].user
                      /\ list[i].text = kept[i].text
                      /\ list[i].time = kept[i].time
                /\ (h.channel \in {None, ""} /\ h.user \in {None, ""})
                      => Len(list) = Len(store)

\* a HistoryCommand with channel 'C1' and a user, on a store of two documents
\* of which one is of channel 'C1' and of that user, has called its callback
C7_Witness ==
    \E r \in HistoryRuns :
        /\ chain[r].channel = "C1"
        /\ chain[r].user = "U1"
        /\ Len(store) = 2
        /\ Entries(r, "call", "callback") # {}
        /\ Len(CallbackList(r)) = 1

----------------------------------------------------------------------------
(* C8 *)

\* what run r returned, for a run that has returned: the command executed
\* next, or the result left to the dispatcher
ReturnOf(r) == IF r < Len(chain) THEN RetCommand(chain[r + 1]) ELSE result

\* C8: an execute of a HistoryCommand whose store query has completed calls
\* the callback exactly once, after the query, with the whole list of the
\* records found; it never calls it when the query raised; and what execute
\* returns is what the callback returned.
C8_CallbackOnceAndReturned ==
    \A r \in HistoryRuns :
        LET h == chain[r]
            queried == Entries(r, "ok", "objects")
            called == Entries(r, "call", "callback")
        IN  /\ (r < Len(chain) \/ pc # "execute") =>
                  IF queried # {}
                  THEN /\ Cardinality(queried) = 1
                       /\ Cardinality(called) = 1
                       /\ \A q \in queried, p \in called : q < p
                       /\ Len(CallbackList(r)) =
                              Len(SelectSeq(store, LAMBDA d : Passes(h, d)))
                  ELSE called = {}
            /\ Returned(r) =>
                  /\ Entries(r, "ok", "callback") # {}
                  /\ ReturnOf(r) = CallbackReturn(h.callback, CallbackList(r))

\* a HistoryCommand has returned the command its callback returned, and the
\* dispatcher has started that command
C8_Witness ==
    /\ Len(chain) = 2
    /\ chain[1].kind = "History"
    /\ chain[1].callback = "cb_again"
    /\ Len(store) = 2
    /\ chain[2] = HistoryCommand("cb_count", None, "U1")

----------------------------------------------------------------------------
(* C9 *)

\* the runs that execute a DeleteCommand
DeleteRuns == {r \in Runs : chain[r].kind = "Delete"}

\* C9: an execute of a DeleteCommand that is given an event with a channel, a
\* user and a timestamp issues exactly one delete request, for that channel,
\* user and timestamp, whatever the constructor was called with.
C9_DeleteFromEvent ==
    \A r \in DeleteRuns :
        (DeleteReadable(event) /\ (r < Len(chain) \/ pc # "execute")) =>
            LET calls == EntrySeq(r, "call", "delete_message")
            IN  /\ Len(calls) = 1
                /\ calls[1].args.channel = event.channel
                /\ calls[1].args.user = event.user
                /\ calls[1].args.ts = event.ts

\* a DeleteCommand constructed with channel 'C1' and user 'U2' has had the
\* message of another channel and user deleted
C9_Witness ==
    /\ ctor.kind = "Delete"
    /\ ctor.channel = "C1"
    /\ ctor.user = "U2"
    /\ DeleteReadable(event)
    /\ event.channel = "C2"
    /\ Entries(1, "ok", "delete_message") # {}

----------------------------------------------------------------------------
(* C10 *)

\* the requests of run r, in order: what was asked, of whom
Requests(r) ==
    LET asked == SelectSeq(trace, LAMBDA e :
                    /\ e.run = r
                    /\ (e.ev = "call" \/ e.op \in {"cid", "dmid", "objects", "remove"}))
    IN  [j \in 1..Len(asked) |-> <<asked[j].op, asked[j].args>>]

\* C10: at every moment of every execute, whether it goes on to return or to
\* raise, the command has the attributes it had when the execute began; and
\* two finished executes of commands with the same attributes, neither of
\* which raised, have made the same requests.
C10_CommandUnchanged ==
    /\ cmd = chain[Len(chain)]
    /\ \A r1, r2 \in Runs :
          (chain[r1] = chain[r2] /\ Returned(r1) /\ Returned(r2))
              => Requests(r1) = Requests(r2)

\* a HistoryCommand whose callback returns that very command has been executed
\* a second time, on a store of two documents, and has returned again
C10_Witness ==
    /\ Len(chain) >= 2
    /\ chain[1] = chain[2]
    /\ Returned(2)
    /\ Len(store) = 2
    /\ Len(Requests(2)) = 2

----------------------------------------------------------------------------
(* C11 *)

\* the calls run r has issued on the chat client: send, delete_message, react
\* and upload_file
ClientActions(r) ==
    {p \in 1..Len(trace) :
        /\ trace[p].run = r
        /\ trace[p].ev = "call"
        /\ trace[p].op \in {"send", "delete_message", "react", "upload_file"}}

\* the store queries of run r
StoreQueries(r) ==
    {p \in 1..Len(trace) : trace[p].run = r /\ trace[p].op = "objects"}

\* C11, as stated: an execute that has returned has issued exactly one call on
\* the client, whatever the variant and the input; for a HistoryCommand it has
\* made exactly one store query instead.
C11_OneActionPerExecute ==
    \A r \in Runs :
        Returned(r) =>
            IF chain[r].kind = "History"
            THEN Cardinality(StoreQueries(r)) = 1
            ELSE Cardinality(ClientActions(r)) = 1

\* C11, amended: an execute of a DeleteCommand, a ReactCommand or an
\* UploadCommand that has returned has issued exactly one call on the client;
\* an execute of a HistoryCommand has made exactly one store query and issued
\* no call on the client; an execute of a MessageCommand that has returned has
\* issued ceil(len(text) / 4000) sends: none for the empty text, one for 1 to
\* 4000 characters, more than one beyond.
C11_OneActionButForMessage ==
    \A r \in Runs :
        LET c == chain[r]
        IN  /\ (c.kind = "History" /\ (r < Len(chain) \/ pc # "execute")) =>
                  /\ Cardinality(StoreQueries(r)) = 1
                  /\ ClientActions(r) = {}
            /\ (c.kind \in {"Delete", "React", "Upload"} /\ Returned(r)) =>
                  Cardinality(ClientActions(r)) = 1
            /\ (c.kind = "Message" /\ Returned(r)) =>
                  /\ Cardinality(ClientActions(r)) = CeilDiv(Len(c.text), ChunkSize)
                  /\ Len(c.text) = 0 => ClientActions(r) = {}
                  /\ Len(c.text) > ChunkSize => Cardinality(ClientActions(r)) > 1

\* a MessageCommand with the empty text has returned without any call on the
\* client
C11_Witness ==
    \E r \in MessageRuns :
        /\ Len(chain[r].text) = 0
        /\ Returned(r)
        /\ ClientActions(r) = {}
        /\ pc = "done"

----------------------------------------------------------------------------
(* C12 *)

\* the runs that execute a ReactCommand
ReactRuns == {r \in Runs : chain[r].kind = "React"}

\* C12: an execute of a ReactCommand issues exactly one react request, with
\* the emoji given at construction and the event it was handed, and asks
\* nothing else of anyone; when it returns it returns None, so that the
\* dispatch ends there and no further command is executed.
C12_OneReaction ==
    \A r \in ReactRuns :
        (r < Len(chain) \/ pc # "execute") =>
            LET calls == EntrySeq(r, "call", "react")
            IN  /\ Len(calls) = 1
                /\ calls[1].args.emoji = chain[r]._emoji
                /\ r = 1 => calls[1].args.emoji = ctor.emoji
                /\ calls[1].args.event = event
                /\ RequestCount(r) = 1
                /\ r = Len(chain)
                /\ Returned(r) => result = RetNone

\* a ReactCommand handed a complete event has reacted and the dispatch has ended
C12_Witness ==
    \E r \in ReactRuns :
        /\ pc = "done"
        /\ DeleteReadable(event)
        /\ Entries(r, "ok", "react") # {}
        /\ result = RetNone

----------------------------------------------------------------------------
(* C13 *)

\* the dispatched command starts a chain without end: a HistoryCommand whose
\* callback returns the command again
Cyclic == ctor.kind = "History" /\ ctor.callback = "cb_self"

\* the dispatch has ended, with a result or with an error
Ended == pc \in {"done", "raised"}

\* what the last execute of the chain returned, from the requests in trace
LastReturn ==
    LET c == chain[Len(chain)]
    IN  IF c.kind = "History"
        THEN CallbackReturn(c.callback, CallbackList(Len(chain)))
        ELSE RetNone

\* a dispatch that has ended with a result has executed a chain of commands
\* each of which is the one the execute before it returned, has run each
\* execute once (its requests are made once), and its result is what the last
\* execute returned, which is no command; a chain without end has not ended
\* with a result
C13_EndedWithResult ==
    pc = "done" =>
        /\ ~Cyclic
        /\ ~IsCommand(result)
        /\ result = LastReturn
        /\ \A r \in Runs : RequestCount(r) = RequestsOf(chain[r])
        /\ \A r \in 1..(Len(chain) - 1) :
              /\ chain[r].kind = "History"
              /\ RetCommand(chain[r + 1]) =
                    CallbackReturn(chain[r].callback, CallbackList(r))

\* whenever an execute has returned a command, the next step of the dispatch
\* starts the execute of that command, be it one already executed
C13_ReturnedCommandRunsNext ==
    (pc = "returned" /\ IsCommand(result)) =>
        (pc' = "execute" /\ cmd' = result.command /\ Len(chain') = Len(chain) + 1)

\* C13: a dispatch whose chain of commands is finite ends (unless an error
\* ends it first, with the result of the last command, every command of the
\* chain having been executed once); a command that returns itself is
\* executed again each time it returns, and its dispatch never ends with a
\* result.
C13_ChainsEndUnlessCyclic ==
    /\ []C13_EndedWithResult
    /\ [][C13_ReturnedCommandRunsNext]_vars
    /\ (~Cyclic) ~> Ended

\* a dispatch of two commands has ended with the count the second one's
\* callback returned
C13_Witness ==
    /\ pc = "done"
    /\ Len(chain) = 2
    /\ chain[1].callback = "cb_again"
    /\ result = RetValue(1)

----------------------------------------------------------------------------
(* C14 *)

\* C14: an execute of a DeleteCommand handed no event, or an event lacking
\* channel, user or ts, raises (TypeError for no event, KeyError for a missing
\* key) without having asked anything of the client, and the dispatch ends
\* with that error; when the delete request itself raises, the dispatch ends
\* with the very error the client raised, and nothing is done after it.
C14_DeleteErrorsPropagate ==
    \A r \in DeleteRuns :
        /\ (~DeleteReadable(event) /\ (r < Len(chain) \/ pc # "execute")) =>
              /\ pc = "raised"
              /\ r = Len(chain)
              /\ error = IF event = NoEvent THEN "TypeError" ELSE "KeyError"
              /\ Entries(r, "call", "delete_message") = {}
              /\ RequestCount(r) = 0
        /\ \A p \in Entries(r, "raise", "delete_message") :
              /\ pc = "raised"
              /\ r = Len(chain)
              /\ error = trace[p].error
              /\ p = Len(trace)

\* a DeleteCommand handed an event without 'ts' has raised KeyError, nothing
\* having been asked of the client
C14_Witness ==
    \E r \in DeleteRuns :
        /\ event # NoEvent
        /\ ~DeleteReadable(event)
        /\ pc = "raised"
        /\ error = "KeyError"
        /\ trace = <<>>

----------------------------------------------------------------------------
(* C15 *)

\* C15: when the send of chunk k of a MessageCommand raises, the dispatch ends
\* with the error the client raised; chunks 0..k-1 have each been sent once
\* and have completed, chunk k has been sent once, and nothing at all is asked
\* after the raise: no chunk beyond k is sent, chunk k is not sent again, no
\* sent chunk is deleted.
C15_SendErrorStopsTheLoop ==
    \A r \in MessageRuns :
        \A p \in Entries(r, "raise", "send") :
            LET calls == EntrySeq(r, "call", "send")
                k == Len(calls) - 1
            IN  /\ pc = "raised"
                /\ r = Len(chain)
                /\ error = trace[p].error
                /\ p = Len(trace)
                /\ pending = {}
                /\ trace[p].call = calls[k + 1].call
                /\ \A j \in 0..k :
                      calls[j + 1].args.text =
                          SubSeq(chain[r].text, ChunkSize * j + 1,
                                 IF ChunkSize * (j + 1) < Len(chain[r].text)
                                 THEN ChunkSize * (j + 1) ELSE Len(chain[r].text))
                /\ Cardinality(Entries(r, "ok", "send")) = k
                /\ \A j \in 0..(k - 1) :
                      \E q \in Entries(r, "ok", "send") : trace[q].call = calls[j + 1].call
                /\ Entries(r, "call", "delete_message") = {}

\* the send of the second of three chunks has raised
C15_Witness ==
    \E r \in MessageRuns :
        /\ Len(chain[r].text) = 2 * ChunkSize + 1
        /\ Entries(r, "raise", "send") # {}
        /\ Cardinality(Entries(r, "call", "send")) = 2
        /\ pc = "raised"

----------------------------------------------------------------------------
(* C16 *)

\* the runs that execute an UploadCommand with delete=False
KeepingUploadRuns ==
    {r \in Runs : chain[r].kind = "Upload" /\ ~chain[r].delete}

\* C16: an execute of an UploadCommand with delete=False leaves the local
\* files as they were, at every moment and whether the upload completes or
\* raises, and never calls os.remove.
C16_KeptWithoutDelete ==
    \A r \in KeepingUploadRuns :
        /\ files = files0
        /\ Entries(r, "ok", "remove") = {}
        /\ Entries(r, "raise", "remove") = {}
        /\ Entries(r, "ok", "upload_file") # {} => (Returned(r) /\ result = RetNone)

\* an UploadCommand with delete=False has uploaded an existing file and
\* returned, the file still being there
C16_Witness ==
    \E r \in KeepingUploadRuns :
        /\ chain[r].file_name \in files0
        /\ Entries(r, "ok", "upload_file") # {}
        /\ pc = "done"
        /\ chain[r].file_name \in files

============================================================================
